---- MODULE Spec2Model ----
(***************************************************************************)
(* A model of compare-urls.js: the pad-then-compare pipeline of            *)
(* compareImages (buffers are flat RGBA byte sequences, indexed as the     *)
(* code indexes them) and the orchestration of main / captureScreenshot.   *)
(*                                                                         *)
(* Buffers are 0-indexed in the code; the byte at offset i of a buffer d   *)
(* is d[i + 1] here.  Thresholds are counted in tenths (0.1 is 1), colour  *)
(* distances in units of 1/10000.  A PNG file is represented by the image  *)
(* it decodes to (8-bit RGBA, which the encoding keeps exactly).  The      *)
(* decoded pixels are opaque grays, as a screenshot with its default white *)
(* background is opaque; on them the integer arithmetic of the colour      *)
(* distance is exact.                                                      *)
(***************************************************************************)
EXTENDS Integers, Sequences, FiniteSets, TLC

\* ------------------------------------------------------------------ bounds

\* Decoded images have 1..MaxDim columns and 1..MaxDim rows.
MaxDim == 3
\* compareImages is invoked at most MaxCalls times on one pair of inputs.
MaxCalls == 2

\* ------------------------------------------------------- program constants

\* paddedA.data.fill(255)
FillValue == 255
\* { threshold: 0.1 }, in tenths
Threshold == 1

\* Gray levels of the decoded pixels (opaque, r = g = b).
Palette == <<0, 20, 128, 255>>
\* The pictures decoded: <<c, kx, ky>> paints pixel (x, y) with gray level
\* Palette[(c + kx * x + ky * y) mod 4]: all black, all 20, all white, a
\* diagonal gradient, rows of one level each, columns of one level each.
Patterns ==
    {<<0, 0, 0>>, <<1, 0, 0>>, <<3, 0, 0>>, <<0, 1, 1>>, <<2, 0, 1>>, <<3, 1, 0>>}
\* What a freshly allocated, not yet written buffer may hold.
Garbage == {0, 77}

\* A function on 1..n as a sequence of n values.
Buffer(f) == f \o <<>>

NoImage == [width |-> 0, height |-> 0, data |-> <<>>]

Max(a, b) == IF a > b THEN a ELSE b
Min(a, b) == IF a < b THEN a ELSE b
Abs(a) == IF a < 0 THEN -a ELSE a

\* ------------------------------------------------------------ decoded PNGs

\* The image PNG.sync.read returns: width, height and 4 * width * height
\* bytes, row-major RGBA.  Pixel (x, y) has gray level
\* Palette[(c + kx * x + ky * y) mod 4], alpha 255.
MkImage(w, h, c, kx, ky) ==
    [width  |-> w,
     height |-> h,
     data   |-> Buffer([i \in 1..(4 * w * h) |->
                   LET p  == (i - 1) \div 4
                       ch == (i - 1) % 4
                       x  == p % w
                       y  == p \div w
                   IN  IF ch = 3 THEN 255
                       ELSE Palette[((c + kx * x + ky * y) % Len(Palette)) + 1]])]

Images ==
    {MkImage(w, h, p[1], p[2], p[3]) :
        w \in 1..MaxDim, h \in 1..MaxDim, p \in Patterns}

\* ---------------------------------------------------------------- pngjs

\* new PNG({ width, height }): the buffer's content is whatever the
\* allocation left there (g), until the code fills it.
NewPNG(w, h, g) ==
    [width |-> w, height |-> h, data |-> Buffer([i \in 1..(4 * w * h) |-> g])]

\* buffer.fill(v)
BufferFill(img, v) == [img EXCEPT !.data = Buffer([i \in DOMAIN img.data |-> v])]

\* src.copy(dst, targetStart, sourceStart, sourceEnd)
BufferCopy(src, dst, targetStart, sourceStart, sourceEnd) ==
    Buffer([i \in DOMAIN dst |->
        IF /\ i - 1 >= targetStart
           /\ i - 1 < targetStart + (sourceEnd - sourceStart)
           /\ sourceStart + (i - 1 - targetStart) < Len(src)
        THEN src[sourceStart + (i - 1 - targetStart) + 1]
        ELSE dst[i]])

\* Mutant: the target offset of a row is computed with the width of the
\* source instead of the width of the target.
RECURSIVE BitbltRows_srcStride(_, _, _, _, _, _, _, _, _)
BitbltRows_srcStride(src, dstData, dstWidth, srcX, srcY, width, height, delta, y) ==
    IF y >= height THEN dstData
    ELSE BitbltRows_srcStride(src,
                    BufferCopy(src.data, dstData,
                               ((delta[2] + y) * src.width + delta[1]) * 4,
                               ((srcY + y) * src.width + srcX) * 4,
                               ((srcY + y) * src.width + srcX + width) * 4),
                    dstWidth, srcX, srcY, width, height, delta, y + 1)

\* The row loop of PNG.bitblt, from row y on.
RECURSIVE BitbltRows(_, _, _, _, _, _, _, _, _)
BitbltRows(src, dstData, dstWidth, srcX, srcY, width, height, delta, y) ==
    IF y >= height THEN dstData
    ELSE BitbltRows(src,
                    BufferCopy(src.data, dstData,
                               ((delta[2] + y) * dstWidth + delta[1]) * 4,
                               ((srcY + y) * src.width + srcX) * 4,
                               ((srcY + y) * src.width + srcX + width) * 4),
                    dstWidth, srcX, srcY, width, height, delta, y + 1)

\* PNG.bitblt throws when the rectangle leaves the source or the target.
BitbltThrows(src, dst, srcX, srcY, width, height, deltaX, deltaY) ==
    \/ srcX > src.width \/ srcY > src.height
    \/ srcX + width > src.width \/ srcY + height > src.height
    \/ deltaX > dst.width \/ deltaY > dst.height
    \/ deltaX + width > dst.width \/ deltaY + height > dst.height

\* PNG.bitblt(src, dst, srcX, srcY, width, height, deltaX, deltaY): dst after
\* the call.
Bitblt(src, dst, srcX, srcY, width, height, deltaX, deltaY) ==
    [dst EXCEPT !.data =
        BitbltRows(src, dst.data, dst.width, srcX, srcY, width, height,
                   <<deltaX, deltaY>>, 0)]

\* ------------------------------------------------------------- pixelmatch

\* The YIQ distance of two opaque colours that differ by (dr, dg, db), in
\* units of 1/10000; with yOnly the brightness difference.  On gray pixels
\* (dr = dg = db) i and q vanish and the value is exact.
YIQDelta(dr, dg, db, yOnly) ==
    LET y == (299 * dr + 587 * dg + 114 * db) \div 1000
        i == (596 * dr - 274 * dg - 322 * db) \div 1000
        q == (211 * dr - 523 * dg + 312 * db) \div 1000
    IN  IF yOnly THEN y
        ELSE 5053 * y * y + 2990 * i * i + 1957 * q * q

\* colorDelta(img1, img2, k, m, yOnly): the pixel at byte offset k of img1
\* against the pixel at byte offset m of img2.
ColorDelta(img1, img2, k, m, yOnly) ==
    YIQDelta(img1[k + 1] - img2[m + 1], img1[k + 2] - img2[m + 2],
             img1[k + 3] - img2[m + 3], yOnly)

\* The two pixels hold the same four bytes (a32[i] === b32[i]).
SamePixel(img1, img2, k, m) ==
    \A ch \in 1..4 : img1[k + ch] = img2[m + ch]

\* The pixels of the rectangle x0..x2 by y0..y2 but (x1, y1), in the order
\* of the loops: x outer, y inner.
AdjacentIn(x0, y0, x2, y2, x1, y1) ==
    SelectSeq([n \in 1..((x2 - x0 + 1) * (y2 - y0 + 1)) |->
                  <<x0 + ((n - 1) \div (y2 - y0 + 1)),
                    y0 + ((n - 1) % (y2 - y0 + 1))>>],
              LAMBDA p : p # <<x1, y1>>)

\* The adjacent pixels of (x1, y1) inside the image.
Adjacent(x1, y1, width, height) ==
    AdjacentIn(Max(x1 - 1, 0), Max(y1 - 1, 0),
               Min(x1 + 1, width - 1), Min(y1 + 1, height - 1), x1, y1)

\* What zeroes starts at: 1 for a pixel on the border of the image
\* (x1 === x0 || x1 === x2 || y1 === y0 || y1 === y2).
BorderZeroes(x1, y1, width, height) ==
    IF \/ x1 = Max(x1 - 1, 0) \/ x1 = Min(x1 + 1, width - 1)
       \/ y1 = Max(y1 - 1, 0) \/ y1 = Min(y1 + 1, height - 1)
    THEN 1 ELSE 0

\* How many pixels of adj hold the bytes of the pixel at offset pos.
EqualAdjacent(img, pos, width, adj) ==
    Cardinality({n \in DOMAIN adj :
        SamePixel(img, img, pos, (adj[n][2] * width + adj[n][1]) * 4)})

\* hasManySiblings(img, x1, y1, width, height): more than 2 zeroes.
HasManySiblings(img, x1, y1, width, height) ==
    EqualAdjacent(img, (y1 * width + x1) * 4, width, Adjacent(x1, y1, width, height))
        + BorderZeroes(x1, y1, width, height) > 2

\* The brightness delta of the centre (at offset pos) against each pixel of
\* adj.
BrightnessDeltas(img, pos, width, adj) ==
    Buffer([n \in DOMAIN adj |->
        ColorDelta(img, img, pos, (adj[n][2] * width + adj[n][1]) * 4, TRUE)])

\* min after the loop: the smallest delta below 0, or 0.
DarkestDelta(deltas) ==
    CHOOSE d \in {0} \cup {deltas[n] : n \in DOMAIN deltas} :
        \A n \in DOMAIN deltas : d <= deltas[n]

\* max after the loop: the largest delta above 0, or 0.
BrightestDelta(deltas) ==
    CHOOSE d \in {0} \cup {deltas[n] : n \in DOMAIN deltas} :
        \A n \in DOMAIN deltas : d >= deltas[n]

\* (minX, minY) or (maxX, maxY): the first pixel visited whose delta is d;
\* later ones do not replace it (delta < min, delta > max are strict).
FirstWith(adj, deltas, d) ==
    IF \E n \in DOMAIN deltas : deltas[n] = d
    THEN adj[CHOOSE n \in DOMAIN deltas :
                deltas[n] = d /\ \A m \in 1..(n - 1) : deltas[m] # d]
    ELSE <<0, 0>>

\* What antialiased returns once its loop has ended with these values.
AntialiasedAfterLoop(img, img2, width, height, zeroes, min, max, minP, maxP) ==
    /\ zeroes <= 2
    /\ min # 0
    /\ max # 0
    /\ \/ /\ HasManySiblings(img, minP[1], minP[2], width, height)
          /\ HasManySiblings(img2, minP[1], minP[2], width, height)
       \/ /\ HasManySiblings(img, maxP[1], maxP[2], width, height)
          /\ HasManySiblings(img2, maxP[1], maxP[2], width, height)

\* The loop of antialiased over adj: it counts the pixels as bright as the
\* centre (and returns false at the third), keeps the darkest and the
\* brightest pixel.
AntialiasedLoop(img, img2, width, height, border, adj, deltas) ==
    AntialiasedAfterLoop(img, img2, width, height,
        border + Cardinality({n \in DOMAIN deltas : deltas[n] = 0}),
        DarkestDelta(deltas), BrightestDelta(deltas),
        FirstWith(adj, deltas, DarkestDelta(deltas)),
        FirstWith(adj, deltas, BrightestDelta(deltas)))

\* antialiased(img, x1, y1, width, height, img2)
Antialiased(img, x1, y1, width, height, img2) ==
    AntialiasedLoop(img, img2, width, height,
        BorderZeroes(x1, y1, width, height),
        Adjacent(x1, y1, width, height),
        BrightnessDeltas(img, (y1 * width + x1) * 4, width,
                         Adjacent(x1, y1, width, height)))

\* Mutant: the comparison with maxDelta is the wrong way round.
AboveThreshold_below(delta, t) == Abs(delta) < 3521500 * t * t

\* Math.abs(delta) > maxDelta, maxDelta = 35215 * threshold * threshold.
AboveThreshold(delta, t) == Abs(delta) > 3521500 * t * t

\* delta of the loop of pixelmatch at byte offset pos.
PixelDelta(img1, img2, pos) ==
    IF SamePixel(img1, img2, pos, pos) THEN 0
    ELSE ColorDelta(img1, img2, pos, pos, FALSE)

\* How the loop of pixelmatch classifies pixel (x, y): "same" (within the
\* threshold), "aa" (anti-aliasing, not counted) or "diff" (counted).
PixelClass(img1, img2, x, y, width, height, t) ==
    IF AboveThreshold(PixelDelta(img1, img2, (y * width + x) * 4), t)
    THEN IF \/ Antialiased(img1, x, y, width, height, img2)
            \/ Antialiased(img2, x, y, width, height, img1)
         THEN "aa"
         ELSE "diff"
    ELSE "same"

\* The class of every pixel, in the order of the loop (y outer, x inner).
PixelClasses(img1, img2, width, height, t) ==
    Buffer([n \in 1..(width * height) |->
        PixelClass(img1, img2, (n - 1) % width, (n - 1) \div width, width, height, t)])

\* drawGrayPixel: 255 + (y - 255) * alpha, alpha = 0.1, on an opaque pixel,
\* stored in a byte.
GrayValue(img, pos) ==
    (2550 + ((299 * img[pos + 1] + 587 * img[pos + 2] + 114 * img[pos + 3]) \div 1000)
          - 255) \div 10

\* The byte the loop writes to channel ch (0..3) of the output at a pixel of
\* that class: yellow for anti-aliasing, red for a difference, else gray.
DrawnByte(class, img1, pos, ch) ==
    IF ch = 3 THEN 255
    ELSE IF class = "aa" THEN <<255, 255, 0>>[ch + 1]
    ELSE IF class = "diff" THEN <<255, 0, 0>>[ch + 1]
    ELSE GrayValue(img1, pos)

\* pixelmatch throws on buffers of unequal size or not of size w * h * 4.
PixelmatchThrows(img1, img2, output, width, height) ==
    \/ Len(img1) # Len(img2)
    \/ Len(output) # Len(img1)
    \/ Len(img1) # width * height * 4

\* What pixelmatch returns (the pixels classified "diff") and the output
\* buffer after the call, the pixels being classified as classes.
PixelmatchResult(img1, output, classes) ==
    [count  |-> Cardinality({n \in DOMAIN classes : classes[n] = "diff"}),
     output |-> Buffer([i \in DOMAIN output |->
                  DrawnByte(classes[((i - 1) \div 4) + 1], img1,
                            ((i - 1) \div 4) * 4, (i - 1) % 4)])]

\* pixelmatch(img1, img2, output, width, height, { threshold: t }).  Its
\* fast path for identical buffers (every pixel drawn gray, 0 returned) is
\* what the loop gives on them: every delta is 0 and every class "same".
Pixelmatch(img1, img2, output, width, height, t) ==
    PixelmatchResult(img1, output, PixelClasses(img1, img2, width, height, t))

\* ---------------------------------------------------------- compareImages

\* The objects compareImages holds: the two decoded images, the two padded
\* images, the diff image, the count, and whether a call has thrown.
Frame(a, b) ==
    [imgA |-> a, imgB |-> b, paddedA |-> NoImage, paddedB |-> NoImage,
     diff |-> NoImage, numDiffPixels |-> -1, threw |-> FALSE]

NoFrame == Frame(NoImage, NoImage)

\* Mutant: the width of the canvas is the width of image A.
MaxWidth_onlyA(a, b) == a.width

\* Math.max(imgA.width, imgB.width)
MaxWidth(a, b) == Max(a.width, b.width)

\* Math.max(imgA.height, imgB.height)
MaxHeight(a, b) == Max(a.height, b.height)

\* const paddedA = new PNG(...); const paddedB = new PNG(...)
AllocPadded(f, g) ==
    [f EXCEPT !.paddedA = NewPNG(MaxWidth(f.imgA, f.imgB), MaxHeight(f.imgA, f.imgB), g),
              !.paddedB = NewPNG(MaxWidth(f.imgA, f.imgB), MaxHeight(f.imgA, f.imgB), g)]

\* Mutant: the padded images are filled with 0 (transparent black).
FillPadded_black(f) ==
    [f EXCEPT !.paddedA = BufferFill(f.paddedA, 0),
              !.paddedB = BufferFill(f.paddedB, 0)]

\* Mutant: the padded images are not filled.
FillPadded_skipped(f) == f

\* paddedA.data.fill(255); paddedB.data.fill(255)
FillPadded(f) ==
    [f EXCEPT !.paddedA = BufferFill(f.paddedA, FillValue),
              !.paddedB = BufferFill(f.paddedB, FillValue)]

\* PNG.bitblt(imgA, paddedA, 0, 0, imgA.width, imgA.height, 0, 0)
BlitA(f) ==
    IF f.threw THEN f
    ELSE IF BitbltThrows(f.imgA, f.paddedA, 0, 0, f.imgA.width, f.imgA.height, 0, 0)
    THEN [f EXCEPT !.threw = TRUE]
    ELSE [f EXCEPT !.paddedA =
            Bitblt(f.imgA, f.paddedA, 0, 0, f.imgA.width, f.imgA.height, 0, 0)]

\* Mutant: image B is not copied into its padded image.
BlitB_skipped(f) == f

\* PNG.bitblt(imgB, paddedB, 0, 0, imgB.width, imgB.height, 0, 0)
BlitB(f) ==
    IF f.threw THEN f
    ELSE IF BitbltThrows(f.imgB, f.paddedB, 0, 0, f.imgB.width, f.imgB.height, 0, 0)
    THEN [f EXCEPT !.threw = TRUE]
    ELSE [f EXCEPT !.paddedB =
            Bitblt(f.imgB, f.paddedB, 0, 0, f.imgB.width, f.imgB.height, 0, 0)]

\* const diff = new PNG({ width: maxWidth, height: maxHeight })
AllocDiff(f, g) ==
    IF f.threw THEN f
    ELSE [f EXCEPT !.diff =
            NewPNG(MaxWidth(f.imgA, f.imgB), MaxHeight(f.imgA, f.imgB), g)]

\* The objects once pixelmatch has returned r.
Matched(f, r) == [f EXCEPT !.numDiffPixels = r.count, !.diff.data = r.output]

\* const numDiffPixels = pixelmatch(paddedA.data, paddedB.data, diff.data,
\*                                  maxWidth, maxHeight, { threshold: 0.1 })
Match(f) ==
    IF f.threw THEN f
    ELSE IF PixelmatchThrows(f.paddedA.data, f.paddedB.data, f.diff.data,
                             MaxWidth(f.imgA, f.imgB), MaxHeight(f.imgA, f.imgB))
    THEN [f EXCEPT !.threw = TRUE]
    ELSE Matched(f, Pixelmatch(f.paddedA.data, f.paddedB.data, f.diff.data,
                               MaxWidth(f.imgA, f.imgB), MaxHeight(f.imgA, f.imgB),
                               Threshold))

\* compareImages up to its return, on the decoded images a and b; g is what
\* the allocations leave in a new buffer.
CompareImages(a, b, g) ==
    Match(AllocDiff(BlitB(BlitA(FillPadded(AllocPadded(Frame(a, b), g)))), g))

\* ------------------------------------------------------------------ state

VARIABLES
    files,      \* the images stored under output/: urlA, urlB, diff
    frame,      \* the objects of the latest call of compareImages
    calls,      \* how many times compareImages has been called
    first,      \* the objects of the first call of compareImages
    argv,       \* the command line after the script's name
    pc,         \* where main is
    cpc,        \* where captureScreenshot is, "-" outside it
    dir,        \* the directory output exists
    browsers,   \* browsers launched and not closed
    events,     \* what has been done, printed and written, in order
    diffPixels, \* main's diffPixels, -1 before it is set
    reported,   \* the count the final message gives, -1 before it is printed
    exitCode    \* the status process.exit was called with, -1 if it was not

vars == <<files, frame, calls, first, argv, pc, cpc, dir, browsers, events,
          diffPixels, reported, exitCode>>

mainVars == <<argv, pc, cpc, dir, browsers, events, diffPixels, reported, exitCode>>

\* compareImages(pathA, pathB, diffPath): reads and decodes the two files,
\* pads, compares, writes the diff image unless a call threw.
CallCompareImages ==
    /\ \E g \in Garbage : frame' = CompareImages(files.urlA, files.urlB, g)
    /\ first' = IF calls = 0 THEN frame' ELSE first
    /\ files' = IF frame'.threw THEN files ELSE [files EXCEPT !.diff = frame'.diff]
    /\ calls' = calls + 1

\* ------------------------------------------- compareImages, called directly

\* compareImages called on two decoded images, again and again.
Init ==
    /\ files \in [urlA : Images, urlB : Images, diff : {NoImage}]
    /\ frame = NoFrame
    /\ first = NoFrame
    /\ calls = 0
    /\ argv = <<>>
    /\ pc = "off"
    /\ cpc = "-"
    /\ dir = FALSE
    /\ browsers = 0
    /\ events = <<>>
    /\ diffPixels = -1
    /\ reported = -1
    /\ exitCode = -1

Compare ==
    /\ calls < MaxCalls
    /\ CallCompareImages
    /\ UNCHANGED mainVars

Next == Compare

Spec == Init /\ [][Next]_vars

\* ------------------------------------------------------------------- main

\* What the command line may hold for a URL.
UrlArgs == {"", "http://a"}

\* process.argv[n] of the code is Arg(n - 1) here; undefined when missing.
Undefined == "undefined"

Arg(n) == IF n <= Len(argv) THEN argv[n] ELSE Undefined

\* Mutant: only a missing argument is refused, an empty one is accepted.
Falsy_undefinedOnly(v) == v = Undefined

\* !v for a string or undefined
Falsy(v) == v = Undefined \/ v = ""

InitMain ==
    /\ files = [urlA |-> NoImage, urlB |-> NoImage, diff |-> NoImage]
    /\ frame = NoFrame
    /\ first = NoFrame
    /\ calls = 0
    /\ argv \in {<<>>} \cup {<<a>> : a \in UrlArgs}
                \cup {<<a, b>> : a \in UrlArgs, b \in UrlArgs}
    /\ pc = "start"
    /\ cpc = "-"
    /\ dir = FALSE
    /\ browsers = 0
    /\ events = <<>>
    /\ diffPixels = -1
    /\ reported = -1
    /\ exitCode = -1

\* Mutant: the rejection is swallowed and main goes on with its next step.
Reject_swallowed ==
    /\ pc' = IF pc = "captureA" THEN "captureB" ELSE "compare"
    /\ cpc' = IF pc = "captureA" THEN "launch" ELSE "-"

\* A promise main awaits is rejected: main stops there.
Reject ==
    /\ pc' = "rejected"
    /\ cpc' = "-"

\* if (!urlA || !urlB) { console.error(usage); process.exit(1) }
CheckArgs ==
    /\ pc = "start"
    /\ IF Falsy(Arg(1)) \/ Falsy(Arg(2))
       THEN /\ events' = Append(events, "usage")
            /\ exitCode' = 1
            /\ pc' = "exited"
       ELSE /\ pc' = "ensureDir"
            /\ UNCHANGED <<events, exitCode>>
    /\ UNCHANGED <<files, frame, calls, first, argv, cpc, dir, browsers,
                   diffPixels, reported>>

\* await fsExtra.ensureDir('output'); console.log(`Capturing URL A: ...`);
\* captureScreenshot(urlA, pathA) is entered.
EnsureDir ==
    /\ pc = "ensureDir"
    /\ \E ok \in BOOLEAN :
        IF ok
        THEN /\ dir' = TRUE
             /\ events' = events \o <<"ensureDir", "log capturing A">>
             /\ pc' = "captureA"
             /\ cpc' = "launch"
        ELSE /\ Reject
             /\ UNCHANGED <<dir, events>>
    /\ UNCHANGED <<files, frame, calls, first, argv, browsers, diffPixels,
                   reported, exitCode>>

InCapture == pc \in {"captureA", "captureB"}

\* const browser = await puppeteer.launch()
Launch ==
    /\ InCapture /\ cpc = "launch"
    /\ \E ok \in BOOLEAN :
        IF ok
        THEN /\ browsers' = browsers + 1
             /\ events' = Append(events, "launch")
             /\ cpc' = "newPage"
             /\ UNCHANGED pc
        ELSE /\ Reject
             /\ UNCHANGED <<browsers, events>>
    /\ UNCHANGED <<files, frame, calls, first, argv, dir, diffPixels, reported,
                   exitCode>>

\* const page = await browser.newPage()
NewPage ==
    /\ InCapture /\ cpc = "newPage"
    /\ \E ok \in BOOLEAN :
        IF ok THEN cpc' = "goto" /\ UNCHANGED pc ELSE Reject
    /\ UNCHANGED <<files, frame, calls, first, argv, dir, browsers, events,
                   diffPixels, reported, exitCode>>

\* await page.goto(url, { waitUntil: 'networkidle0' })
Goto ==
    /\ InCapture /\ cpc = "goto"
    /\ \E ok \in BOOLEAN :
        IF ok THEN cpc' = "screenshot" /\ UNCHANGED pc ELSE Reject
    /\ UNCHANGED <<files, frame, calls, first, argv, dir, browsers, events,
                   diffPixels, reported, exitCode>>

\* Mutant: both captures are written to output/urlA.png.
Screenshot_samePath ==
    /\ InCapture /\ cpc = "screenshot"
    /\ \/ \E img \in Images :
            /\ files' = [files EXCEPT !.urlA = img]
            /\ events' = Append(events, "write urlA.png")
            /\ cpc' = "close"
            /\ UNCHANGED pc
       \/ Reject /\ UNCHANGED <<files, events>>
    /\ UNCHANGED <<frame, calls, first, argv, dir, browsers, diffPixels, reported,
                   exitCode>>

\* await page.screenshot({ path: filePath, fullPage: true }): the page as
\* rendered is written to filePath.
Screenshot ==
    /\ InCapture /\ cpc = "screenshot"
    /\ \/ \E img \in Images :
            /\ files' = IF pc = "captureA" THEN [files EXCEPT !.urlA = img]
                        ELSE [files EXCEPT !.urlB = img]
            /\ events' = Append(events, IF pc = "captureA" THEN "write urlA.png"
                                        ELSE "write urlB.png")
            /\ cpc' = "close"
            /\ UNCHANGED pc
       \/ Reject /\ UNCHANGED <<files, events>>
    /\ UNCHANGED <<frame, calls, first, argv, dir, browsers, diffPixels, reported,
                   exitCode>>

\* await browser.close(), and main up to its next await: after capture A,
\* console.log(`Capturing URL B: ...`) and captureScreenshot(urlB, pathB) is
\* entered; after capture B, console.log('Comparing screenshots...').
Close ==
    /\ InCapture /\ cpc = "close"
    /\ \E ok \in BOOLEAN :
        IF ok
        THEN /\ browsers' = browsers - 1
             /\ IF pc = "captureA"
                THEN /\ events' = events \o <<"close", "log capturing B">>
                     /\ pc' = "captureB"
                     /\ cpc' = "launch"
                ELSE /\ events' = events \o <<"close", "log comparing">>
                     /\ pc' = "compare"
                     /\ cpc' = "-"
        ELSE /\ Reject
             /\ UNCHANGED <<browsers, events>>
    /\ UNCHANGED <<files, frame, calls, first, argv, dir, diffPixels, reported,
                   exitCode>>

\* const diffPixels = compareImages(pathA, pathB, diffPath)
CompareStep ==
    /\ pc = "compare"
    /\ CallCompareImages
    /\ IF frame'.threw
       THEN /\ Reject
            /\ events' = Append(events, "compare")
            /\ UNCHANGED diffPixels
       ELSE /\ events' = events \o <<"compare", "write diff.png">>
            /\ diffPixels' = frame'.numDiffPixels
            /\ pc' = "log"
            /\ UNCHANGED cpc
    /\ UNCHANGED <<argv, dir, browsers, reported, exitCode>>

\* console.log(`Done. ${diffPixels} pixels different.`); console.log(`Diff
\* saved to ${diffPath}`)
LogDone ==
    /\ pc = "log"
    /\ events' = Append(events, "log done")
    /\ reported' = diffPixels
    /\ pc' = "done"
    /\ UNCHANGED <<files, frame, calls, first, argv, cpc, dir, browsers,
                   diffPixels, exitCode>>

NextMain ==
    \/ CheckArgs
    \/ EnsureDir
    \/ Launch
    \/ NewPage
    \/ Goto
    \/ Screenshot
    \/ Close
    \/ CompareStep
    \/ LogDone

SpecMain == InitMain /\ [][NextMain]_vars

\* ============================================================ properties

\* The four bytes of pixel (x, y) of an image.
PixelAt(img, x, y) ==
    SubSeq(img.data, (y * img.width + x) * 4 + 1, (y * img.width + x) * 4 + 4)

White == <<255, 255, 255, 255>>

Red == <<255, 0, 0, 255>>

Returned == calls > 0 /\ ~frame.threw

\* C1: compareImages builds paddedA, paddedB and the diff image all with
\* width max(A.width, B.width) and height max(A.height, B.height), each with
\* a buffer of 4 * width * height bytes; the shape is the same with A and B
\* swapped; no call throws, so pixelmatch never sees buffers of unequal
\* dimensions.
C1_CommonCanvas ==
    calls > 0 =>
        LET a == files.urlA
            b == files.urlB
            w == IF a.width > b.width THEN a.width ELSE b.width
            h == IF a.height > b.height THEN a.height ELSE b.height
        IN  /\ ~frame.threw
            /\ \A img \in {frame.paddedA, frame.paddedB, frame.diff} :
                  /\ img.width = w
                  /\ img.height = h
                  /\ Len(img.data) = 4 * w * h
            /\ MaxWidth(a, b) = MaxWidth(b, a)
            /\ MaxHeight(a, b) = MaxHeight(b, a)
            /\ ~PixelmatchThrows(frame.paddedA.data, frame.paddedB.data,
                                 frame.diff.data, w, h)

\* A call has returned on an image A narrower and taller than B.
C1_Witness ==
    /\ Returned
    /\ frame.imgA.width < frame.imgB.width
    /\ frame.imgA.height > frame.imgB.height
    /\ frame.paddedA.width = frame.imgB.width
    /\ frame.paddedA.height = frame.imgA.height

\* The padded image holds the pixels of the image at the same coordinates
\* and white everywhere else.
PaddedFrom(padded, img) ==
    \A x \in 0..(padded.width - 1), y \in 0..(padded.height - 1) :
        PixelAt(padded, x, y) =
            IF x < img.width /\ y < img.height THEN PixelAt(img, x, y) ELSE White

\* C2: at every (x, y) of the canvas, A' holds A's RGBA value when
\* x < A.width and y < A.height and (255,255,255,255) otherwise; the same
\* for B'; the decoded images A and B are as they were decoded.
C2_PaddingCorrect ==
    calls > 0 =>
        /\ PaddedFrom(frame.paddedA, files.urlA)
        /\ PaddedFrom(frame.paddedB, files.urlB)
        /\ frame.imgA = files.urlA
        /\ frame.imgB = files.urlB

\* A call has returned on an image A of several gray levels that is smaller
\* than the canvas in both directions.
C2_Witness ==
    /\ Returned
    /\ frame.imgA.width > 1
    /\ frame.imgA.height > 1
    /\ frame.imgA.width < frame.paddedA.width
    /\ frame.imgA.height < frame.paddedA.height
    /\ PixelAt(frame.imgA, 0, 0) # PixelAt(frame.imgA, 1, 0)
    /\ PixelAt(frame.imgA, 0, 0) # PixelAt(frame.imgA, 0, 1)

\* C3: comparing an image with itself reports zero differences.
C3_SelfCompareZero ==
    (calls > 0 /\ files.urlA = files.urlB) => frame.numDiffPixels = 0

\* A call has returned on twice the same image, of several gray levels.
C3_Witness ==
    /\ Returned
    /\ frame.imgA = frame.imgB
    /\ frame.imgA.width > 1
    /\ PixelAt(frame.imgA, 0, 0) # PixelAt(frame.imgA, 1, 0)
    /\ frame.numDiffPixels = 0

Black2x2 == MkImage(2, 2, 0, 0, 0)

Black3x3 == MkImage(3, 3, 0, 0, 0)

\* C4: A 2x2 all black and B 3x3 all black, at threshold 0.1: both are
\* normalized to 3x3 and the count is 5; the pixels marked different are
\* those of row y = 2 and of column x = 2 and no other.
C4_BlackScenario ==
    (calls > 0 /\ files.urlA = Black2x2 /\ files.urlB = Black3x3) =>
        /\ frame.paddedA.width = 3 /\ frame.paddedA.height = 3
        /\ frame.paddedB.width = 3 /\ frame.paddedB.height = 3
        /\ frame.numDiffPixels = 5
        /\ \A x \in 0..2, y \in 0..2 :
              (PixelAt(frame.diff, x, y) = Red) <=> (x = 2 \/ y = 2)

\* The call on the 2x2 and the 3x3 black images has returned.
C4_Witness ==
    /\ Returned
    /\ frame.imgA = Black2x2
    /\ frame.imgB = Black3x3
    /\ frame.numDiffPixels = 5

\* The thresholds, increasing.
ThresholdSeq == <<0, 1, 5, 10>>

\* What pixelmatch returns on the padded images at each threshold.
CountsByThreshold ==
    Buffer([n \in DOMAIN ThresholdSeq |->
        Pixelmatch(frame.paddedA.data, frame.paddedB.data, frame.diff.data,
                   frame.paddedA.width, frame.paddedA.height,
                   ThresholdSeq[n]).count])

NonIncreasing(counts) ==
    \A m \in DOMAIN counts, n \in DOMAIN counts : m <= n => counts[n] <= counts[m]

\* C5: on fixed padded images, the count the comparator returns does not
\* increase with the threshold; the script's 0.1 is one of the thresholds
\* and its count is the one compareImages returned.
C5_MonotoneInThreshold ==
    calls > 0 =>
        /\ NonIncreasing(CountsByThreshold)
        /\ CountsByThreshold[2] = frame.numDiffPixels

\* A call has returned on images whose count falls strictly at each of the
\* thresholds.
C5_Witness ==
    /\ Returned
    /\ CountsByThreshold[1] > CountsByThreshold[2]
    /\ CountsByThreshold[2] > CountsByThreshold[3]
    /\ CountsByThreshold[3] > CountsByThreshold[4]

\* C6: a later call of compareImages on the same two decoded images gives
\* the diff image and the count of the first call, whatever the new buffers
\* held and whatever the earlier calls left.
C6_Deterministic ==
    calls > 1 =>
        /\ frame.diff = first.diff
        /\ frame.numDiffPixels = first.numDiffPixels
        /\ files.diff = first.diff

\* A second call has returned, on images that differ and of which one is
\* padded.
C6_Witness ==
    /\ calls > 1
    /\ ~frame.threw
    /\ frame.numDiffPixels > 0
    /\ frame.imgA.width < frame.paddedA.width

\* How many times e has happened.
Count(e) == Cardinality({n \in DOMAIN events : events[n] = e})

Has(e) == Count(e) > 0

NoFiles == [urlA |-> NoImage, urlB |-> NoImage, diff |-> NoImage]

\* The n-th URL of the command line is missing or empty.
MissingOrEmpty(n) == n > Len(argv) \/ argv[n] = ""

\* C7: with the first or the second URL missing or empty, main prints the
\* usage message and exits with status 1, and nothing else is ever done: no
\* directory, no browser, no screenshot, no comparison, no diff file.
C7_UsageBeforeAnyEffect ==
    (MissingOrEmpty(1) \/ MissingOrEmpty(2)) =>
        /\ pc \in {"start", "exited"}
        /\ pc = "exited" => (exitCode = 1 /\ events = <<"usage">>)
        /\ pc = "start" => (exitCode = -1 /\ events = <<>>)
        /\ ~dir
        /\ browsers = 0
        /\ calls = 0
        /\ files = NoFiles

\* main has exited on a command line whose second URL is missing, and on
\* one whose first URL is empty.
C7_Witness ==
    /\ pc = "exited"
    /\ exitCode = 1
    /\ Len(argv) = 1 \/ (Len(argv) = 2 /\ argv[1] = "" /\ argv[2] # "")

\* The steps the claim orders, as they happened.
Steps ==
    SelectSeq(events, LAMBDA e : e \in {"ensureDir", "write urlA.png", "write urlB.png",
                                        "compare", "write diff.png", "log done"})

\* C8: when main has logged its final message, the steps have happened in
\* the order: directory ensured, capture A written, capture B written,
\* comparison, diff image written, final log; the three files are written;
\* the count in the message is what the comparison returned for the two
\* captures.
C8_OrderAndReportedCount ==
    pc = "done" =>
        /\ Steps = <<"ensureDir", "write urlA.png", "write urlB.png",
                     "compare", "write diff.png", "log done">>
        /\ dir
        /\ files.urlA # NoImage
        /\ files.urlB # NoImage
        /\ files.diff # NoImage
        /\ files.diff = frame.diff
        /\ frame.imgA = files.urlA
        /\ frame.imgB = files.urlB
        /\ reported = frame.numDiffPixels
        /\ reported = CompareImages(files.urlA, files.urlB, 0).numDiffPixels

\* main is done on two captures that differ.
C8_Witness ==
    /\ pc = "done"
    /\ reported > 0
    /\ files.urlA.width # files.urlB.width

\* C9: outside captureScreenshot no browser is open: every browser launched
\* is closed on every path out of captureScreenshot.
C9_BrowserReleased == cpc = "-" => browsers = 0

\* C10: at most one browser is open at any time; capture B starts only
\* after capture A has written its file and closed its browser; the
\* comparison is called only after both captures have done so; when a
\* capture has failed, main has stopped: no comparison, no diff file, no
\* final message, and after a failed capture A no capture B.
C10_SequentialAndStopsOnFailure ==
    /\ browsers <= 1
    /\ pc = "captureB" =>
          /\ files.urlA # NoImage
          /\ Count("close") = 1
          /\ cpc = "launch" => browsers = 0
    /\ (calls > 0 \/ pc \in {"compare", "log", "done"}) =>
          /\ files.urlA # NoImage
          /\ files.urlB # NoImage
          /\ Count("close") = 2
          /\ browsers = 0
    /\ (pc = "rejected" /\ ~Has("log comparing")) =>
          /\ calls = 0
          /\ files.diff = NoImage
          /\ ~Has("compare")
          /\ ~Has("write diff.png")
          /\ ~Has("log done")
          /\ reported = -1
    /\ (pc = "rejected" /\ ~Has("log capturing B")) =>
          /\ files.urlB = NoImage
          /\ Count("launch") <= 1
          /\ ~Has("write urlB.png")

\* Capture B has failed after its browser was launched, capture A having
\* succeeded.
C10_Witness ==
    /\ pc = "rejected"
    /\ Has("log capturing B")
    /\ ~Has("log comparing")
    /\ Count("launch") = 2
    /\ files.urlA # NoImage

====
